---- MODULE Spec2Model ----
(***************************************************************************)
(* Model of scripts/sentinel2_burn_severity_heatmap.js: the Sentinel Hub   *)
(* evalscript that selects a pre-fire and a post-fire scene                *)
(* (preProcessScenes) and maps each pixel's two samples to an RGBA value   *)
(* (evaluatePixel).                                                        *)
(*                                                                         *)
(* Numbers.  A JavaScript Number is modelled exactly, not as an IEEE       *)
(* double: a value is a record [k, n, d] that is the rational n/d in       *)
(* lowest terms (k = "fin"), +Infinity or -Infinity (k = "inf", n = 1 or   *)
(* -1) or NaN (k = "nan").  The one irrational step of the script,         *)
(* Math.sqrt, yields a record [k, s, n, d] that is s * sqrt(n/d) with s    *)
(* the sign.  Rounding errors of the double arithmetic are not modelled.   *)
(***************************************************************************)
EXTENDS Integers, Sequences, FiniteSets

VARIABLES
    fromDate, toDate,          \* the analysis window (script globals)
    excludedClasses,           \* SCL codes masked out (script global)
    thresholds,                \* the severity table (script global)
    samples, pixel,            \* the last evaluatePixel call: argument, outcome
    catalog, collections, ppReturn,   \* the last preProcessScenes call
    smoothArg, dataset, windowSize, smoothedValues,  \* the last smoothData call
    clsRBR, clsAlpha,          \* the last run of the threshold scan alone
    pc, frame                  \* interleaved evaluatePixel activations

vars == <<fromDate, toDate, excludedClasses, thresholds, samples, pixel,
          catalog, collections, ppReturn, smoothArg, dataset, windowSize,
          smoothedValues, clsRBR, clsAlpha, pc, frame>>

(***************************************************************************)
(* Bounds of the model.                                                    *)
(***************************************************************************)
MaxBand == 3        \* band values B08, B12 range over 0..MaxBand
MaxSamples == 3     \* evaluatePixel is called with 0..MaxSamples samples
MaxScenes == 3      \* the catalog holds 0..MaxScenes orbits
MaxLen == 5         \* smoothData datasets hold 0..MaxLen values
MaxVal == 5         \* smoothData values range over 1..MaxVal
MaxWindow == 5      \* smoothData windows are the odd sizes in 1..MaxWindow
MaxCenti == 120     \* the threshold scan is run on -MaxCenti/100..MaxCenti/100
NumPixels == 2      \* evaluatePixel activations that run interleaved

(***************************************************************************)
(* Number arithmetic.                                                      *)
(***************************************************************************)
Abs(i) == IF i < 0 THEN -i ELSE i

Sign(i) == IF i < 0 THEN -1 ELSE IF i = 0 THEN 0 ELSE 1

RECURSIVE GCD(_, _)
GCD(a, b) == IF b = 0 THEN a ELSE GCD(b, a % b)

\* the rational n/d (d > 0) in lowest terms
Fin(n, d) ==
    LET g == GCD(Abs(n), d)
    IN  [k |-> "fin", n |-> n \div g, d |-> d \div g]

NaN == [k |-> "nan", n |-> 0, d |-> 1]

Inf(s) == [k |-> "inf", n |-> s, d |-> 1]

Num(i) == Fin(i, 1)

\* x + y
AddF(x, y) ==
    IF x.k = "nan" \/ y.k = "nan" THEN NaN
    ELSE IF x.k = "inf" /\ y.k = "inf" THEN (IF x.n = y.n THEN x ELSE NaN)
    ELSE IF x.k = "inf" THEN x
    ELSE IF y.k = "inf" THEN y
    ELSE Fin(x.n * y.d + y.n * x.d, x.d * y.d)

\* -x
NegF(x) == IF x.k = "nan" THEN NaN ELSE [x EXCEPT !.n = -x.n]

\* x - y
SubF(x, y) == AddF(x, NegF(y))

\* x * y
MulF(x, y) ==
    IF x.k = "nan" \/ y.k = "nan" THEN NaN
    ELSE IF x.k = "inf" \/ y.k = "inf"
         THEN (IF x.n = 0 \/ y.n = 0 THEN NaN ELSE Inf(Sign(x.n) * Sign(y.n)))
    ELSE Fin(x.n * y.n, x.d * y.d)

\* x / y; a zero divisor is +0, the only zero the script divides by
DivF(x, y) ==
    IF x.k = "nan" \/ y.k = "nan" THEN NaN
    ELSE IF x.k = "inf"
         THEN (IF y.k = "inf" THEN NaN
               ELSE Inf(x.n * (IF y.n < 0 THEN -1 ELSE 1)))
    ELSE IF y.k = "inf" THEN Num(0)
    ELSE IF y.n = 0 THEN (IF x.n = 0 THEN NaN ELSE Inf(Sign(x.n)))
    ELSE Fin(x.n * y.d * Sign(y.n), x.d * Abs(y.n))

\* Math.abs
MathAbs(x) == IF x.k = "nan" THEN NaN ELSE [x EXCEPT !.n = Abs(x.n)]

\* x <= y, false when either is NaN
LeqF(x, y) ==
    IF x.k = "nan" \/ y.k = "nan" THEN FALSE
    ELSE IF x.k = "inf" THEN (x.n < 0 \/ (y.k = "inf" /\ y.n > 0))
    ELSE IF y.k = "inf" THEN y.n > 0
    ELSE x.n * y.d <= y.n * x.d

\* Math.max and Math.min of two numbers: NaN if either is NaN
MathMax(x, y) ==
    IF x.k = "nan" \/ y.k = "nan" THEN NaN ELSE IF LeqF(x, y) THEN y ELSE x

MathMin(x, y) ==
    IF x.k = "nan" \/ y.k = "nan" THEN NaN ELSE IF LeqF(x, y) THEN x ELSE y

(***************************************************************************)
(* Square roots: [k, s, n, d] is s * sqrt(n/d), n/d >= 0 in lowest terms.  *)
(***************************************************************************)
Root(s, n, d) ==
    IF s = 0 \/ n = 0 THEN [k |-> "fin", s |-> 0, n |-> 0, d |-> 1]
    ELSE LET g == GCD(n, d)
         IN  [k |-> "fin", s |-> s, n |-> n \div g, d |-> d \div g]

RootNaN == [k |-> "nan", s |-> 0, n |-> 0, d |-> 1]

RootInf(s) == [k |-> "inf", s |-> s, n |-> 1, d |-> 1]

\* the rational p/q (q > 0) as a root value
RootOfRat(p, q) == Root(Sign(p), p * p, q * q)

\* Math.sqrt
MathSqrt(x) ==
    IF x.k = "nan" THEN RootNaN
    ELSE IF x.k = "inf" THEN (IF x.n > 0 THEN RootInf(1) ELSE RootNaN)
    ELSE IF x.n < 0 THEN RootNaN
    ELSE Root(Sign(x.n), x.n, x.d)

\* x / r for a number x and a root value r; a zero divisor is +0
DivByRoot(x, r) ==
    IF x.k = "nan" \/ r.k = "nan" THEN RootNaN
    ELSE IF x.k = "inf"
         THEN (IF r.k = "inf" THEN RootNaN
               ELSE RootInf(x.n * (IF r.s < 0 THEN -1 ELSE 1)))
    ELSE IF r.k = "inf" THEN Root(0, 0, 1)
    ELSE IF r.s = 0 THEN (IF x.n = 0 THEN RootNaN ELSE RootInf(Sign(x.n)))
    ELSE Root(Sign(x.n) * r.s, x.n * x.n * r.d, x.d * x.d * r.n)

\* a/b <= c/d for a, c >= 0 and b, d > 0, by continued fractions (no products)
RECURSIVE LeqFrac(_, _, _, _)
LeqFrac(a, b, c, d) ==
    LET qa == a \div b
        qc == c \div d
        ra == a % b
        rc == c % d
    IN  IF qa # qc THEN qa < qc
        ELSE IF ra = 0 THEN TRUE
        ELSE IF rc = 0 THEN FALSE
        ELSE LeqFrac(d, rc, b, ra)

\* r <= x for a root value r and a number x, false when either is NaN
RootLeq(r, x) ==
    IF r.k = "nan" \/ x.k = "nan" THEN FALSE
    ELSE IF r.k = "inf" THEN (r.s < 0 \/ (x.k = "inf" /\ x.n > 0))
    ELSE IF x.k = "inf" THEN x.n > 0
    ELSE IF r.s > 0 THEN x.n > 0 /\ LeqFrac(r.n, r.d, x.n * x.n, x.d * x.d)
    ELSE IF r.s = 0 THEN x.n >= 0
    ELSE x.n >= 0 \/ LeqFrac(x.n * x.n, x.d * x.d, r.n, r.d)

\* the largest m in lo..hi with m*m/260100 <= n/d, given that lo is one
RECURSIVE FloorRoot510(_, _, _, _)
FloorRoot510(lo, hi, n, d) ==
    IF lo = hi THEN lo
    ELSE LET mid == (lo + hi + 1) \div 2
         IN  IF LeqFrac(mid * mid, 260100, n, d)
             THEN FloorRoot510(mid, hi, n, d)
             ELSE FloorRoot510(lo, mid - 1, n, d)

\* floor(510 * sqrt(n/d))
Floor510(n, d) == FloorRoot510(0, 510 * ((n \div d) + 1), n, d)

\* Math.round(r * 255) for a root value r: floor(255*r + 1/2)
Round255(r) ==
    IF r.k = "nan" THEN NaN
    ELSE IF r.k = "inf" THEN Inf(r.s)
    ELSE LET m == Floor510(r.n, r.d)
             exact == LeqFrac(r.n, r.d, m * m, 260100)
         IN  IF r.s >= 0 THEN Num((m + 1) \div 2)
             ELSE IF exact THEN Num(-(m \div 2))
             ELSE Num(-((m + 1) \div 2))

\* 1 - r and -r for a root value r are kept symbolic: Math.round((1 - r) * 255)
\* is 255 + Math.round(-r * 255), 255 being an integer
NegRoot(r) == IF r.k = "nan" THEN RootNaN ELSE [r EXCEPT !.s = -r.s]

RoundOneMinus255(r) == AddF(Num(255), Round255(NegRoot(r)))

(***************************************************************************)
(* The script's globals (lines 26-41).  Dates are day numbers, day 1 being *)
(* 2025-01-01; new Date(...) of a scene's date string is its day number.   *)
(***************************************************************************)
InitFromDate == 1

InitToDate == 13

InitExcludedClasses == <<0, 1, 3, 6, 7, 8, 9, 10, 11>>

InitThresholds == <<
    [max |-> Fin(1, 10),   alpha |-> Num(0),     label |-> "Unburnt"],
    [max |-> Fin(27, 100), alpha |-> Fin(3, 10), label |-> "Low severity"],
    [max |-> Fin(44, 100), alpha |-> Fin(5, 10), label |-> "Moderate severity"],
    [max |-> Fin(66, 100), alpha |-> Fin(7, 10), label |-> "Moderate-high severity"],
    [max |-> Inf(1),       alpha |-> Num(1),     label |-> "High severity"] >>

InitConfig ==
    /\ fromDate = InitFromDate
    /\ toDate = InitToDate
    /\ excludedClasses = InitExcludedClasses
    /\ thresholds = InitThresholds

(***************************************************************************)
(* calculateNBR, calculateRBR (lines 45-53).                               *)
(***************************************************************************)
calculateNBR(NIR, SWIR) == DivF(SubF(NIR, SWIR), AddF(NIR, SWIR))

calculateRBR(dNBR, preFireNBR) == DivByRoot(dNBR, MathSqrt(MathAbs(preFireNBR)))

(***************************************************************************)
(* smoothData (lines 57-74).  ds[i] of the model is dataset[i-1] of the    *)
(* script.                                                                 *)
(***************************************************************************)
\* the inner loop (lines 64-69) from j on: <<sum, count>> after its last turn
RECURSIVE windowLoop(_, _, _, _, _)
windowLoop(ds, j, last, sum, count) ==
    IF j > last THEN <<sum, count>>
    ELSE IF j >= 1 /\ j <= Len(ds)
         THEN windowLoop(ds, j + 1, last, AddF(sum, ds[j]), count + 1)
         ELSE windowLoop(ds, j + 1, last, sum, count)

\* Math.floor(windowSize / 2) (line 64)
halfWindow(w) == w \div 2

\* a mean over the full window size, whatever the boundary cut off
windowMeanUntruncated(sum, count, w) == DivF(sum, Num(w))

\* line 70: the value pushed
windowMean(sum, count, w) == DivF(sum, Num(count))

\* line 70: the arrays after the push of element i; dataset is not written
pushSmoothed(ds, smoothed, i, value) ==
    [dataset |-> ds, smoothedValues |-> Append(smoothed, value)]

\* the outer loop (lines 61-71) from i on: both arrays after its last turn
RECURSIVE smoothLoop(_, _, _, _)
smoothLoop(ds, w, i, smoothed) ==
    IF i > Len(ds) THEN [dataset |-> ds, smoothedValues |-> smoothed]
    ELSE LET acc == windowLoop(ds, i - halfWindow(w), i + halfWindow(w), Num(0), 0)
             after == pushSmoothed(ds, smoothed, i, windowMean(acc[1], acc[2], w))
         IN  smoothLoop(after.dataset, w, i + 1, after.smoothedValues)

\* the call: the value returned and the dataset array as the call leaves it
smoothDataCall(ds, w) == smoothLoop(ds, w, 1, <<>>)

smoothData(ds, w) == smoothDataCall(ds, w).smoothedValues

(***************************************************************************)
(* getHeatmapColor, adjustTransparency (lines 118-130).                    *)
(***************************************************************************)
getHeatmapColor(RBR) ==
    LET red == MathMin(Num(255), MathMax(Num(0), Round255(RBR)))
        green == MathMin(Num(255), MathMax(Num(0), RoundOneMinus255(RBR)))
        blue == Num(0)
    IN  <<red, green, blue>>

\* a transparency left linear
adjustTransparencyLinear(alpha) == alpha

adjustTransparency(alpha) == MulF(alpha, alpha)

(***************************************************************************)
(* evaluatePixel (lines 134-187).  s[1], s[2] of the model are samples[0], *)
(* samples[1] of the script.  The outcome records the value returned, the  *)
(* sample fields read, whether a TypeError was thrown, and the locals RBR  *)
(* and alpha (before adjustTransparency) when the call got that far.       *)
(***************************************************************************)
Transparent == <<Num(0), Num(0), Num(0), Num(0)>>

NoCall ==
    [stage |-> "none", out |-> <<>>, reads |-> {}, raised |-> FALSE,
     RBR |-> RootNaN, alpha |-> Num(0)]

\* a count check that lets longer sample lists through
invalidSampleCountBelow(s) == Len(s) < 2

\* line 136
invalidSampleCount(s) == Len(s) # 2

\* Array.prototype.includes (lines 145-146)
includes(arr, v) == \E i \in 1..Len(arr) : arr[i] = v

\* an exclusion test that looks at the pre-fire sample only
isExcludedPreOnly(excl, first, last) == includes(excl, first.SCL)

\* line 148
isExcluded(excl, first, last) == includes(excl, first.SCL) \/ includes(excl, last.SCL)

\* a row test with the boundary left out: RBR < threshold.max
matchesStrictly(RBR, threshold) ==
    RootLeq(RBR, threshold.max)
    /\ ~(threshold.max.k = "fin" /\ RBR = RootOfRat(threshold.max.n, threshold.max.d))

\* line 175: RBR <= threshold.max
matches(RBR, threshold) == RootLeq(RBR, threshold.max)

\* thresholds.some(...) (lines 173-180): alpha after the scan from row i on
RECURSIVE someThreshold(_, _, _, _)
someThreshold(thr, RBR, i, alpha) ==
    IF i > Len(thr) THEN alpha
    ELSE IF matches(RBR, thr[i]) THEN thr[i].alpha
    ELSE someThreshold(thr, RBR, i + 1, alpha)

\* lines 173-180
baseAlpha(thr, RBR) == someThreshold(thr, RBR, 1, Num(0))

evaluatePixelWith(excl, thr, s) ==
    IF invalidSampleCount(s)
    THEN [stage |-> "count", out |-> Transparent, reads |-> {}, raised |-> FALSE,
          RBR |-> RootNaN, alpha |-> Num(0)]
    ELSE IF Len(s) < 2
    THEN \* samples[0] or samples[1] is undefined: reading its SCL throws
         [stage |-> "thrown", out |-> <<>>, reads |-> {}, raised |-> TRUE,
          RBR |-> RootNaN, alpha |-> Num(0)]
    ELSE
    LET firstSample == s[1]
        lastSample == s[2]
        sclReads == {<<1, "SCL">>, <<2, "SCL">>}
    IN  IF isExcluded(excl, firstSample, lastSample)
        THEN [stage |-> "excluded", out |-> Transparent, reads |-> sclReads,
              raised |-> FALSE, RBR |-> RootNaN, alpha |-> Num(0)]
        ELSE
        LET rawNBRPreFire == calculateNBR(Num(firstSample.B08), Num(firstSample.B12))
            rawNBRPostFire == calculateNBR(Num(lastSample.B08), Num(lastSample.B12))
            smoothedPreFire == smoothData(<<rawNBRPreFire>>, 3)
            smoothedPostFire == smoothData(<<rawNBRPostFire>>, 3)
            firstNBR == smoothedPreFire[1]
            lastNBR == smoothedPostFire[1]
            dNBR == SubF(firstNBR, lastNBR)
            RBR == calculateRBR(dNBR, firstNBR)
            rgbColor == getHeatmapColor(RBR)
            alpha == baseAlpha(thr, RBR)
        IN  [stage |-> "mapped",
             out |-> rgbColor \o <<adjustTransparency(alpha)>>,
             reads |-> sclReads \cup {<<1, "B08">>, <<1, "B12">>,
                                      <<2, "B08">>, <<2, "B12">>},
             raised |-> FALSE, RBR |-> RBR, alpha |-> alpha]

evaluatePixel(s) == evaluatePixelWith(excludedClasses, thresholds, s)

(***************************************************************************)
(* The inputs of evaluatePixel: what the platform passes for a pixel.      *)
(***************************************************************************)
Bands == 0..MaxBand

SCLCodes == 0..11

Sample == [B08 : Bands, B12 : Bands, SCL : SCLCodes, dataMask : {0, 1}]

SamplePairs == {<<a, b>> : a \in Sample, b \in Sample}

\* vegetated, valid samples (SCL 4)
VegSample == {x \in Sample : x.SCL = 4 /\ x.dataMask = 1}

\* calls with a sample count other than 2
OtherCounts ==
    {<<>>} \cup {<<a>> : a \in Sample}
    \cup {[i \in 1..n |-> IF i = 1 THEN a ELSE b] :
             a \in VegSample, b \in VegSample, n \in 3..MaxSamples}

PixelInputs == SamplePairs \cup OtherCounts

PixelIdle == samples = <<>> /\ pixel = NoCall

CallEvaluatePixel ==
    /\ PixelIdle
    /\ \E s \in PixelInputs :
          /\ samples' = s
          /\ pixel' = evaluatePixel(s)
    /\ UNCHANGED <<fromDate, toDate, excludedClasses, thresholds,
                   catalog, collections, ppReturn,
                   smoothArg, dataset, windowSize, smoothedValues,
                   clsRBR, clsAlpha, pc, frame>>

(***************************************************************************)
(* smoothData called on its own.                                           *)
(***************************************************************************)
Values == {Num(v) : v \in 1..MaxVal}

Datasets == UNION {[1..n -> Values] : n \in 0..MaxLen}

Windows == {w \in 1..MaxWindow : w % 2 = 1}

SmoothIdle ==
    smoothArg = <<>> /\ dataset = <<>> /\ windowSize = 0 /\ smoothedValues = <<>>

CallSmoothData ==
    /\ SmoothIdle
    /\ \E ds \in Datasets, w \in Windows :
          /\ smoothArg' = ds
          /\ windowSize' = w
          /\ dataset' = smoothDataCall(ds, w).dataset
          /\ smoothedValues' = smoothDataCall(ds, w).smoothedValues
    /\ UNCHANGED <<fromDate, toDate, excludedClasses, thresholds, samples, pixel,
                   catalog, collections, ppReturn, clsRBR, clsAlpha, pc, frame>>

(***************************************************************************)
(* The threshold scan of evaluatePixel (lines 173-180) run on its own.     *)
(***************************************************************************)
ScanInputs ==
    {RootOfRat(c, 100) : c \in (-MaxCenti)..MaxCenti}
    \cup {RootNaN, RootInf(1), RootInf(-1)}

\* no scan run yet: clsAlpha is no number
NoNumber == [k |-> "none", n |-> 0, d |-> 1]

ScanIdle == clsRBR = RootNaN /\ clsAlpha = NoNumber

CallThresholdScan ==
    /\ ScanIdle
    /\ \E r \in ScanInputs :
          /\ clsRBR' = r
          /\ clsAlpha' = baseAlpha(thresholds, r)
    /\ UNCHANGED <<fromDate, toDate, excludedClasses, thresholds, samples, pixel,
                   catalog, collections, ppReturn,
                   smoothArg, dataset, windowSize, smoothedValues, pc, frame>>

(***************************************************************************)
(* preProcessScenes (lines 78-99).  An orbit is [id, dateFrom, dateTo],    *)
(* id being its place in the list the platform passed.                     *)
(***************************************************************************)
\* new Date(string) of a scene's date: its day number
newDate(d) == d

\* a filter that forgets the scene's end
inWindowFromOnly(orbit) == newDate(orbit.dateFrom) >= fromDate

\* the filter predicate (lines 80-83)
inWindow(orbit) ==
    newDate(orbit.dateFrom) >= fromDate /\ newDate(orbit.dateTo) <= toDate

\* a comparator that sorts latest first
compareOrbitsDescending(a, b) == newDate(b.dateFrom) - newDate(a.dateFrom)

\* the comparator (line 86)
compareOrbits(a, b) == newDate(a.dateFrom) - newDate(b.dateFrom)

\* Array.prototype.sort is stable: o goes behind every element not after it
RECURSIVE insertOrbit(_, _)
insertOrbit(sorted, o) ==
    IF sorted = <<>> THEN <<o>>
    ELSE IF compareOrbits(sorted[Len(sorted)], o) <= 0 THEN Append(sorted, o)
    ELSE Append(insertOrbit(SubSeq(sorted, 1, Len(sorted) - 1), o),
                sorted[Len(sorted)])

RECURSIVE sortOrbits(_)
sortOrbits(orbits) ==
    IF orbits = <<>> THEN <<>>
    ELSE insertOrbit(sortOrbits(SubSeq(orbits, 1, Len(orbits) - 1)),
                     orbits[Len(orbits)])

\* lines 89-96: the orbits kept and the value returned
selectFirstLast(orbits) ==
    IF Len(orbits) >= 2
    THEN [orbits |-> <<orbits[1], orbits[Len(orbits)]>>, ret |-> "collections"]
    ELSE [orbits |-> orbits, ret |-> "emptyArray"]

\* collections.scenes.orbits after the call, and the value returned:
\* "collections" is the object passed in, "emptyArray" a new []
preProcessScenes(orbits) == selectFirstLast(sortOrbits(SelectSeq(orbits, inWindow)))

Dates == {InitFromDate - 1, InitFromDate, 7, InitToDate, InitToDate + 1}

SceneDates == {x \in [dateFrom : Dates, dateTo : Dates] : x.dateFrom <= x.dateTo}

\* the list f of scene dates as orbits, each with its place as id
withIds(f) ==
    [i \in 1..Len(f) |-> [id |-> i, dateFrom |-> f[i].dateFrom, dateTo |-> f[i].dateTo]]

Catalogs == {withIds(f) : f \in UNION {[1..n -> SceneDates] : n \in 0..MaxScenes}}

ScenesIdle == catalog = <<>> /\ collections = <<>> /\ ppReturn = "none"

CallPreProcessScenes ==
    /\ ScenesIdle
    /\ \E c \in Catalogs :
          /\ catalog' = c
          /\ collections' = preProcessScenes(c).orbits
          /\ ppReturn' = preProcessScenes(c).ret
    /\ UNCHANGED <<fromDate, toDate, excludedClasses, thresholds, samples, pixel,
                   smoothArg, dataset, windowSize, smoothedValues,
                   clsRBR, clsAlpha, pc, frame>>

(***************************************************************************)
(* evaluatePixel activations run side by side (one per pixel, as the       *)
(* platform runs them), each a step at a time: the steps read the globals  *)
(* when they run.  frame[p] holds activation p's argument as passed (arg), *)
(* the samples array as it is now, and its locals; pc[p] is the line it is *)
(* at.                                                                     *)
(***************************************************************************)
Pixels == 1..NumPixels

NoFrame ==
    [arg |-> <<>>, samples |-> <<>>, RBR |-> RootNaN, rgbColor |-> <<>>,
     alpha |-> Num(0), out |-> <<>>]

sampleOf(b08, b12, scl) == [B08 |-> b08, B12 |-> b12, SCL |-> scl, dataMask |-> 1]

ParInputs ==
    { <<>>,
      <<sampleOf(3, 1, 4)>>,
      <<sampleOf(3, 1, 4), sampleOf(1, 2, 4)>>,
      <<sampleOf(2, 1, 4), sampleOf(1, 1, 5)>>,
      <<sampleOf(3, 1, 4), sampleOf(3, 2, 4)>>,
      <<sampleOf(0, 0, 4), sampleOf(1, 2, 4)>>,
      <<sampleOf(3, 1, 8), sampleOf(1, 2, 4)>> }

ParIdle == pc = [p \in Pixels |-> "idle"] /\ frame = [p \in Pixels |-> NoFrame]

\* the platform calls evaluatePixel(samples) for pixel p
Begin(p) ==
    /\ pc[p] = "idle"
    /\ \E s \in ParInputs :
          frame' = [frame EXCEPT ![p] = [NoFrame EXCEPT !.arg = s, !.samples = s]]
    /\ pc' = [pc EXCEPT ![p] = "line136"]
    /\ UNCHANGED <<fromDate, toDate, excludedClasses, thresholds, samples, pixel,
                   catalog, collections, ppReturn,
                   smoothArg, dataset, windowSize, smoothedValues, clsRBR, clsAlpha>>

\* lines 136-150: the two early returns
CheckStep(p) ==
    /\ pc[p] = "line136"
    /\ LET s == frame[p].samples
       IN  IF invalidSampleCount(s)
           THEN /\ frame' = [frame EXCEPT ![p].out = Transparent]
                /\ pc' = [pc EXCEPT ![p] = "returned"]
           ELSE IF Len(s) < 2
           THEN /\ frame' = frame
                /\ pc' = [pc EXCEPT ![p] = "thrown"]
           ELSE IF isExcluded(excludedClasses, s[1], s[2])
           THEN /\ frame' = [frame EXCEPT ![p].out = Transparent]
                /\ pc' = [pc EXCEPT ![p] = "returned"]
           ELSE /\ frame' = frame
                /\ pc' = [pc EXCEPT ![p] = "line153"]
    /\ UNCHANGED <<fromDate, toDate, excludedClasses, thresholds, samples, pixel,
                   catalog, collections, ppReturn,
                   smoothArg, dataset, windowSize, smoothedValues, clsRBR, clsAlpha>>

\* lines 153-173: RBR, its colour, and alpha = 0.0
MapStep(p) ==
    /\ pc[p] = "line153"
    /\ LET s == frame[p].samples
           firstNBR == smoothData(<<calculateNBR(Num(s[1].B08), Num(s[1].B12))>>, 3)[1]
           lastNBR == smoothData(<<calculateNBR(Num(s[2].B08), Num(s[2].B12))>>, 3)[1]
           RBR == calculateRBR(SubF(firstNBR, lastNBR), firstNBR)
       IN  frame' = [frame EXCEPT ![p].RBR = RBR,
                                  ![p].rgbColor = getHeatmapColor(RBR),
                                  ![p].alpha = Num(0)]
    /\ pc' = [pc EXCEPT ![p] = "line174"]
    /\ UNCHANGED <<fromDate, toDate, excludedClasses, thresholds, samples, pixel,
                   catalog, collections, ppReturn,
                   smoothArg, dataset, windowSize, smoothedValues, clsRBR, clsAlpha>>

\* a scan that consumes the global table: it shifts the first row off
ScanStepShift(p) ==
    /\ pc[p] = "line174"
    /\ frame' = [frame EXCEPT
                   ![p].alpha = someThreshold(thresholds, frame[p].RBR, 1, frame[p].alpha)]
    /\ pc' = [pc EXCEPT ![p] = "line183"]
    /\ thresholds' = Tail(thresholds)
    /\ UNCHANGED <<fromDate, toDate, excludedClasses, samples, pixel,
                   catalog, collections, ppReturn,
                   smoothArg, dataset, windowSize, smoothedValues, clsRBR, clsAlpha>>

\* lines 174-180: the scan of the global thresholds, which it only reads
ScanStep(p) ==
    /\ pc[p] = "line174"
    /\ frame' = [frame EXCEPT
                   ![p].alpha = someThreshold(thresholds, frame[p].RBR, 1, frame[p].alpha)]
    /\ pc' = [pc EXCEPT ![p] = "line183"]
    /\ UNCHANGED <<fromDate, toDate, excludedClasses, thresholds, samples, pixel,
                   catalog, collections, ppReturn,
                   smoothArg, dataset, windowSize, smoothedValues, clsRBR, clsAlpha>>

\* lines 183-186
ReturnStep(p) ==
    /\ pc[p] = "line183"
    /\ frame' = [frame EXCEPT
                   ![p].out = frame[p].rgbColor
                              \o <<adjustTransparency(frame[p].alpha)>>]
    /\ pc' = [pc EXCEPT ![p] = "returned"]
    /\ UNCHANGED <<fromDate, toDate, excludedClasses, thresholds, samples, pixel,
                   catalog, collections, ppReturn,
                   smoothArg, dataset, windowSize, smoothedValues, clsRBR, clsAlpha>>

\* the platform takes the returned pixel; the activation is over
TakePixel(p) ==
    /\ pc[p] = "returned"
    /\ frame' = [frame EXCEPT ![p] = NoFrame]
    /\ pc' = [pc EXCEPT ![p] = "idle"]
    /\ UNCHANGED <<fromDate, toDate, excludedClasses, thresholds, samples, pixel,
                   catalog, collections, ppReturn,
                   smoothArg, dataset, windowSize, smoothedValues, clsRBR, clsAlpha>>

NextPar ==
    \E p \in Pixels :
        \/ Begin(p)
        \/ CheckStep(p)
        \/ MapStep(p)
        \/ ScanStep(p)
        \/ ReturnStep(p)
        \/ TakePixel(p)

(***************************************************************************)
(* Specifications: each runs one part of the script, called once from the  *)
(* state the script's load leaves.                                         *)
(***************************************************************************)
Init == InitConfig /\ PixelIdle /\ SmoothIdle /\ ScanIdle /\ ScenesIdle /\ ParIdle

SpecPixel == Init /\ [][CallEvaluatePixel]_vars

SpecSmooth == Init /\ [][CallSmoothData]_vars

SpecScan == Init /\ [][CallThresholdScan]_vars

SpecScenes == Init /\ [][CallPreProcessScenes]_vars

SpecPar == Init /\ [][NextPar]_vars

(***************************************************************************)
(* Properties of evaluatePixel, under SpecPixel.                           *)
(***************************************************************************)
Called == pixel.stage # "none"

\* a colour channel: an integer in 0..255
IsChannel(x) == x.k = "fin" /\ x.d = 1 /\ x.n >= 0 /\ x.n <= 255

\* an opacity: a number in [0, 1]
IsOpacity(x) == x.k = "fin" /\ x.n >= 0 /\ x.n <= x.d

ExclusionSet == {0, 1, 3, 6, 7, 8, 9, 10, 11}

\* C1: whatever the samples (any count, any SCL code, any band values, those
\* with NIR + SWIR = 0 or a pre-fire index of 0 included), the pixel returned
\* has three colour channels that are integers in 0..255 and an alpha in [0,1].
C1_OutputInRange ==
    Called =>
        /\ Len(pixel.out) = 4
        /\ IsChannel(pixel.out[1])
        /\ IsChannel(pixel.out[2])
        /\ IsChannel(pixel.out[3])
        /\ IsOpacity(pixel.out[4])

\* C2: a call with exactly 2 samples, one of which has an SCL code of the
\* exclusion set, returns (0,0,0,0) whatever the band values are.
C2_ExcludedIsTransparent ==
    (/\ Called
     /\ Len(samples) = 2
     /\ (samples[1].SCL \in ExclusionSet \/ samples[2].SCL \in ExclusionSet))
    => pixel.out = <<Num(0), Num(0), Num(0), Num(0)>>

\* an excluded post-fire sample only, over band values whose index is 0/0
C2_Witness ==
    /\ Called
    /\ Len(samples) = 2
    /\ samples[1].SCL = 4 /\ samples[1].B08 = 0 /\ samples[1].B12 = 0
    /\ samples[2].SCL = 11
    /\ pixel.out = <<Num(0), Num(0), Num(0), Num(0)>>

\* C3: a call with a sample count other than 2 returns (0,0,0,0), reads no
\* field of any sample and throws nothing.
C3_WrongCountIsTransparent ==
    (Called /\ Len(samples) # 2) =>
        /\ pixel.out = <<Num(0), Num(0), Num(0), Num(0)>>
        /\ pixel.reads = {}
        /\ ~pixel.raised

\* three samples, the first two of which would map to an opaque red pixel
C3_Witness ==
    /\ Called
    /\ Len(samples) = 3
    /\ samples[1].B08 = 1 /\ samples[1].B12 = 0
    /\ samples[2].B08 = 0 /\ samples[2].B12 = 1
    /\ pixel.out = <<Num(0), Num(0), Num(0), Num(0)>>

\* C7: a pixel with missing data is transparent: when either of the two
\* samples has dataMask = 0 the alpha returned is 0, whatever that sample's
\* SCL, B08 and B12 are.
C7_NoDataIsTransparent ==
    (/\ Called
     /\ Len(samples) = 2
     /\ (samples[1].dataMask = 0 \/ samples[2].dataMask = 0))
    => pixel.out[4] = Num(0)

(***************************************************************************)
(* C8 in integers.  With samples (a, b) and (c, e) for (B08, B12):         *)
(* pre = P/Q, post = R/S, dNBR = D/E, RBR = sign(D) * sqrt(N/M).           *)
(***************************************************************************)
preP == samples[1].B08 - samples[1].B12
preQ == samples[1].B08 + samples[1].B12
postR == samples[2].B08 - samples[2].B12
postS == samples[2].B08 + samples[2].B12
dnbrD == preP * postS - postR * preQ
dnbrE == preQ * postS
rbrN == dnbrD * dnbrD * preQ
rbrM == dnbrE * dnbrE * Abs(preP)

NonDegenerate ==
    /\ Called
    /\ Len(samples) = 2
    /\ samples[1].SCL \notin ExclusionSet
    /\ samples[2].SCL \notin ExclusionSet
    /\ preQ # 0
    /\ postS # 0
    /\ preP # 0

\* RBR <= t/u and RBR >= t/u for integers t >= 0, u > 0
RbrAtMost(t, u) == dnbrD <= 0 \/ LeqFrac(rbrN, rbrM, t * t, u * u)
RbrAtLeast(t, u) ==
    IF t = 0 THEN dnbrD >= 0 ELSE dnbrD > 0 /\ LeqFrac(t * t, u * u, rbrN, rbrM)

\* v = clamp(round(255 * RBR), 0, 255): v - 1/2 <= 255 * RBR < v + 1/2,
\* one side open at each end of the range
IsRedOf(v) ==
    /\ v \in 0..255
    /\ v > 0 => RbrAtLeast(2 * v - 1, 510)
    /\ v < 255 => ~RbrAtLeast(2 * v + 1, 510)

\* v = clamp(round(255 * (1 - RBR)), 0, 255):
\* v - 1/2 <= 255 - 255 * RBR < v + 1/2
IsGreenOf(v) ==
    /\ v \in 0..255
    /\ v > 0 => RbrAtMost(511 - 2 * v, 510)
    /\ v < 255 => ~RbrAtMost(509 - 2 * v, 510)

\* the base alpha of RBR's severity band, in tenths
BandTenths ==
    IF RbrAtMost(10, 100) THEN 0
    ELSE IF RbrAtMost(27, 100) THEN 3
    ELSE IF RbrAtMost(44, 100) THEN 5
    ELSE IF RbrAtMost(66, 100) THEN 7
    ELSE 10

\* C8: for 2 samples, neither excluded, NIR + SWIR # 0 in both and a pre-fire
\* index # 0, with RBR = (pre - post) / sqrt(|pre|) over the unsmoothed
\* indices, the pixel is (clamp(round(RBR*255)), clamp(round((1-RBR)*255)),
\* 0, a*a), a the base alpha of RBR's band; so RBR >= 1 gives (255,0,0,1)
\* and RBR <= 0 gives (0,255,0) with alpha 0.
C8_MappedPixel ==
    NonDegenerate =>
        /\ Len(pixel.out) = 4
        /\ pixel.out[1].k = "fin" /\ pixel.out[1].d = 1 /\ IsRedOf(pixel.out[1].n)
        /\ pixel.out[2].k = "fin" /\ pixel.out[2].d = 1 /\ IsGreenOf(pixel.out[2].n)
        /\ pixel.out[3] = Num(0)
        /\ pixel.out[4].k = "fin"
        /\ pixel.out[4].n * 100 = BandTenths * BandTenths * pixel.out[4].d
        /\ RbrAtLeast(1, 1) => pixel.out = <<Num(255), Num(0), Num(0), Num(1)>>
        /\ RbrAtMost(0, 1) => pixel.out = <<Num(0), Num(255), Num(0), Num(0)>>

\* pre = 1/2, post = 1/3: RBR = (1/6)/sqrt(1/2) = 0.2357, the Low band
C8_Witness ==
    /\ NonDegenerate
    /\ samples[1].B08 = 3 /\ samples[1].B12 = 1
    /\ samples[2].B08 = 2 /\ samples[2].B12 = 1
    /\ pixel.out = <<Num(60), Num(195), Num(0), Fin(9, 100)>>

(***************************************************************************)
(* The threshold scan, under SpecScan.                                     *)
(***************************************************************************)
\* the rows the first-match rule selects for RBR: those RBR <= max holds
\* for and for no row before them
FirstMatches(RBR) ==
    {i \in 1..Len(thresholds) :
        /\ RootLeq(RBR, thresholds[i].max)
        /\ \A j \in 1..(i - 1) : ~RootLeq(RBR, thresholds[j].max)}

\* the base alpha the claim gives c/100, in tenths
BandOfCenti(c) ==
    IF c <= 10 THEN 0
    ELSE IF c <= 27 THEN 3
    ELSE IF c <= 44 THEN 5
    ELSE IF c <= 66 THEN 7
    ELSE 10

\* C4: the table is strictly increasing in max and ends with +Infinity; the
\* first-match scan selects exactly one row for a finite RBR, with base alpha
\* 0.0 for RBR <= 0.10, 0.3 up to 0.27, 0.5 up to 0.44, 0.7 up to 0.66 and
\* 1.0 above (boundaries inclusive); a NaN matches no row and leaves 0.0.
C4_ThresholdBands ==
    /\ \A i \in 1..(Len(thresholds) - 1) :
          /\ thresholds[i].max.k = "fin"
          /\ LeqF(thresholds[i].max, thresholds[i + 1].max)
          /\ thresholds[i].max # thresholds[i + 1].max
    /\ thresholds[Len(thresholds)].max = Inf(1)
    /\ clsAlpha # NoNumber =>
          /\ clsRBR.k = "fin" =>
                /\ Cardinality(FirstMatches(clsRBR)) = 1
                /\ \A c \in (-MaxCenti)..MaxCenti :
                      clsRBR = RootOfRat(c, 100) => clsAlpha = Fin(BandOfCenti(c), 10)
          /\ clsRBR.k = "nan" => (FirstMatches(clsRBR) = {} /\ clsAlpha = Num(0))

\* RBR = 0.27 exactly is still Low severity
C4_Witness == clsRBR = RootOfRat(27, 100) /\ clsAlpha = Fin(3, 10)

(***************************************************************************)
(* preProcessScenes, under SpecScenes.                                     *)
(***************************************************************************)
ScenesCalled == ppReturn # "none"

\* the places in the catalog of the scenes inside the window
Retained ==
    {i \in 1..Len(catalog) :
        catalog[i].dateFrom >= InitFromDate /\ catalog[i].dateTo <= InitToDate}

Ids(orbits) == {orbits[i].id : i \in 1..Len(orbits)}

\* C5: with the scenes of dateFrom >= fromDate and dateTo <= toDate retained,
\* the call returns the empty result if fewer than 2 are retained; otherwise
\* the result holds exactly 2 scenes, a retained scene of smallest dateFrom
\* and then a retained scene of largest dateFrom, and no other scene.
C5_SelectsEarliestAndLatest ==
    ScenesCalled =>
        IF Cardinality(Retained) < 2
        THEN /\ ppReturn = "emptyArray"
             /\ Ids(collections) = Retained
        ELSE /\ ppReturn = "collections"
             /\ Len(collections) = 2
             /\ collections[1].id \in Retained
             /\ collections[2].id \in Retained
             /\ collections[1].id # collections[2].id
             /\ collections[1] = catalog[collections[1].id]
             /\ collections[2] = catalog[collections[2].id]
             /\ \A i \in Retained :
                   /\ collections[1].dateFrom <= catalog[i].dateFrom
                   /\ collections[2].dateFrom >= catalog[i].dateFrom

\* three scenes in the window, passed latest first: the earliest is the
\* second passed, the latest the first
C5_Witness ==
    /\ ScenesCalled
    /\ Len(catalog) = 3
    /\ Retained = {1, 2, 3}
    /\ catalog[1].dateFrom > catalog[3].dateFrom
    /\ catalog[3].dateFrom > catalog[2].dateFrom
    /\ Len(collections) = 2
    /\ collections[1].id = 2
    /\ collections[2].id = 1

\* C6 as claimed: after any call the orbit list of the collection passed in
\* (its orbits and their order) is as the caller passed it.
C6_CollectionUnchanged == ScenesCalled => collections = catalog

\* C6 as the script has it: the call replaces the orbit list of the
\* collection passed in.  The list it leaves holds only scenes of the list
\* passed, each unmodified and at most once, all inside the window and in
\* ascending dateFrom order; it is the list passed only if that list held at
\* most 2 scenes, all inside the window and in ascending dateFrom order.  The
\* window itself is not changed.
C6_CollectionReplaced ==
    ScenesCalled =>
        /\ fromDate = InitFromDate
        /\ toDate = InitToDate
        /\ \A i \in 1..Len(collections) :
              /\ collections[i].id \in 1..Len(catalog)
              /\ collections[i] = catalog[collections[i].id]
              /\ collections[i].dateFrom >= InitFromDate
              /\ collections[i].dateTo <= InitToDate
        /\ \A i, j \in 1..Len(collections) :
              i < j => /\ collections[i].id # collections[j].id
                       /\ collections[i].dateFrom <= collections[j].dateFrom
        /\ collections = catalog <=>
              /\ Len(catalog) <= 2
              /\ Retained = 1..Len(catalog)
              /\ \A i, j \in 1..Len(catalog) :
                    i < j => catalog[i].dateFrom <= catalog[j].dateFrom

\* the insufficient-data result, with the caller's list cut down all the same
C6_Witness ==
    /\ ppReturn = "emptyArray"
    /\ Len(catalog) = 2
    /\ Len(collections) = 1

(***************************************************************************)
(* smoothData, under SpecSmooth.                                           *)
(***************************************************************************)
SmoothCalled == windowSize # 0

Max2(a, b) == IF a >= b THEN a ELSE b
Min2(a, b) == IF a <= b THEN a ELSE b

\* the sum of the integers f[i], i in S
RECURSIVE SumOver(_, _)
SumOver(f, S) ==
    IF S = {} THEN 0
    ELSE LET i == CHOOSE x \in S : TRUE IN f[i].n + SumOver(f, S \ {i})

\* C9: for N >= 1 values and an odd window w, the result has N elements,
\* element i the mean of the input at the places within floor(w/2) of i that
\* exist; the input is left as it was; one value alone comes back unchanged.
C9_TruncatedMovingAverage ==
    (SmoothCalled /\ Len(smoothArg) >= 1) =>
        /\ Len(smoothedValues) = Len(smoothArg)
        /\ \A i \in 1..Len(smoothArg) :
              LET h == windowSize \div 2
                  W == Max2(1, i - h)..Min2(Len(smoothArg), i + h)
              IN  /\ smoothedValues[i].k = "fin"
                  /\ smoothedValues[i].n * Cardinality(W)
                        = SumOver(smoothArg, W) * smoothedValues[i].d
        /\ dataset = smoothArg
        /\ Len(smoothArg) = 1 => smoothedValues = smoothArg

\* window 3 on [1,2,3,4,5] gives [1.5, 2, 3, 4, 4.5]
C9_Witness ==
    /\ windowSize = 3
    /\ smoothArg = <<Num(1), Num(2), Num(3), Num(4), Num(5)>>
    /\ smoothedValues = <<Fin(3, 2), Num(2), Num(3), Num(4), Fin(9, 2)>>

(***************************************************************************)
(* Interleaved evaluatePixel activations, under SpecPar.                   *)
(***************************************************************************)
\* C10: evaluatePixel modifies neither its samples argument nor the globals,
\* so however the activations interleave, each returns what evaluating its
\* samples alone returns, and equal samples give equal pixels.
C10_Stateless ==
    /\ fromDate = InitFromDate
    /\ toDate = InitToDate
    /\ excludedClasses = InitExcludedClasses
    /\ thresholds = InitThresholds
    /\ \A p \in Pixels :
          /\ frame[p].samples = frame[p].arg
          /\ pc[p] = "returned" =>
                frame[p].out
                  = evaluatePixelWith(InitExcludedClasses, InitThresholds,
                                      frame[p].arg).out
    /\ \A p, q \in Pixels :
          (pc[p] = "returned" /\ pc[q] = "returned" /\ frame[p].arg = frame[q].arg)
          => frame[p].out = frame[q].out

\* two activations returned, over different samples, neither transparent
C10_Witness ==
    /\ pc[1] = "returned"
    /\ pc[2] = "returned"
    /\ frame[1].arg # frame[2].arg
    /\ frame[1].out[4] # Num(0)
    /\ frame[2].out[4] # Num(0)

====
